---- MODULE Spec2Model ----
(***************************************************************************)
(* Model of event_emitter.EventEmitter (src/event_emitter/event_emitter.py)*)
(*                                                                         *)
(* State: the emitter's two attributes (strict, listeners), the argument   *)
(* the constructor was given, and the coroutines produced by calls of      *)
(* emit_async / emit_sync (both are declared `async def`, so a call only   *)
(* creates a coroutine object; its body runs when the coroutine is driven).*)
(*                                                                         *)
(* The source file ends inside the docstring of emit_sync (line 85): the   *)
(* body of emit_sync is not part of the source.  Its per-listener state    *)
(* machine is taken from section 4.3 of the specification and is kept in   *)
(* the definitions emit_sync_listener / emit_sync_body.                    *)
(***************************************************************************)
EXTENDS Integers, Sequences, FiniteSets, TLC

\* Bound of the model: total number of listen registrations.
MaxListen == 3

\* Event names, listener values and caller tasks the model draws from.
Events == {"x", "y"}

\* f: def, returns.  h: def, raises.  g: async def, returns.  k: async def, raises.
SyncListeners == {"f", "h"}
AsyncListeners == {"g", "k"}
Listeners == SyncListeners \cup AsyncListeners
Raising == {"h", "k"}

Tasks == {"t1", "t2"}

VARIABLES
    passed,      \* what the constructor was given for `strict`
    strict,      \* self.strict
    listeners,   \* self.listeners: dict event -> list of listeners
    registered,  \* history: per event, the listeners given to listen(event), in call order
    task,        \* per caller task: the coroutine of its latest emit_* call
    registrar    \* the latest call of a registrar: the listener given, the value returned

vars == <<passed, strict, listeners, registered, task, registrar>>

----------------------------------------------------------------------------
\* Helpers

Range(s) == {s[i] : i \in 1..Len(s)}

RECURSIVE SumLen(_, _)
SumLen(d, S) ==
    IF S = {} THEN 0
    ELSE LET e == CHOOSE x \in S : TRUE IN Len(d[e]) + SumLen(d, S \ {e})

NoErr == [type |-> "none", event |-> "none", listener |-> "none"]
Err(ty, e, l) == [type |-> ty, event |-> e, listener |-> l]

\* A task that has made no call yet.
Idle == [op |-> "none", pc |-> "idle", ev |-> "none", src |-> "none", idx |-> 0,
         n0 |-> 0, log |-> <<>>, warns |-> <<>>, result |-> "none", err |-> NoErr]

\* The coroutine object a call of an `async def` method returns: nothing has run.
Coroutine(o, e) == [Idle EXCEPT !.op = o, !.pc = "created", !.ev = e]

----------------------------------------------------------------------------
\* __init__(self, strict: bool = True)

\* The value of the parameter `strict`: True when omitted.
strict_param(p) == IF p = "omitted" THEN TRUE ELSE p = "True"

\* self.strict as __init__ assigns it.
init_strict(p) == TRUE

\* The instance attributes __init__ creates.
attributes == {"strict", "listeners"}

\* self.listeners as __init__ assigns it: the empty dict.
init_listeners == << >>

Init ==
    /\ passed \in {"omitted", "True", "False"}
    /\ strict = init_strict(passed)
    /\ listeners = init_listeners
    /\ registered = [e \in Events |-> <<>>]
    /\ task = [t \in Tasks |-> Idle]
    /\ registrar = [given |-> "none", returned |-> "none"]

----------------------------------------------------------------------------
\* listen(event)(func)

\* dict.get(event): None is modelled as the empty sequence, which is falsy as well.
get(d, e) == IF e \in DOMAIN d THEN d[e] ELSE <<>>

\* d[e] = v
setitem(d, e, v) == [x \in (DOMAIN d) \cup {e} |-> IF x = e THEN v ELSE d[x]]

\* Mutants of decorator: one that replaces the event's list, one that appends
\* the listener to the list of every event as well.
decorator_overwrites(d, event, func) == setitem(d, event, <<func>>)

decorator_shared_list(d, event, func) ==
    [x \in (DOMAIN d) \cup {event} |-> Append(get(d, x), func)]

\* Mutant of decorator: a new event gets an empty list, the listener is left out.
decorator_creates_empty(d, event, func) ==
    IF get(d, event) # <<>>
    THEN [d EXCEPT ![event] = Append(@, func)]
    ELSE setitem(d, event, <<>>)

\* The registry after decorator(func) of listen(event).
decorator(d, event, func) ==
    IF get(d, event) # <<>>
    THEN [d EXCEPT ![event] = Append(@, func)]
    ELSE setitem(d, event, <<func>>)

\* Mutant of decorator_return: the registrar returns nothing.
decorator_return_none(func) == "None"

\* What decorator(func) returns.
decorator_return(func) == func

\* Mutant of listen: registering also turns strict off.
listen_clears_strict(event, func) ==
    /\ SumLen(registered, Events) < MaxListen
    /\ listeners' = decorator(listeners, event, func)
    /\ registered' = [registered EXCEPT ![event] = Append(@, func)]
    /\ registrar' = [given |-> func, returned |-> decorator_return(func)]
    /\ strict' = FALSE
    /\ UNCHANGED <<passed, task>>

listen(event, func) ==
    /\ SumLen(registered, Events) < MaxListen
    /\ listeners' = decorator(listeners, event, func)
    /\ registered' = [registered EXCEPT ![event] = Append(@, func)]
    /\ registrar' = [given |-> func, returned |-> decorator_return(func)]
    /\ UNCHANGED <<passed, strict, task>>

----------------------------------------------------------------------------
\* Listener capability and listener bodies

\* asyncio.iscoroutinefunction(listener)
iscoroutinefunction(l) == l \in AsyncListeners

\* How a coroutine ends.
Returned(c) == [c EXCEPT !.pc = "done", !.result = "ok"]
Raised(c, e) == [c EXCEPT !.pc = "done", !.result = "error", !.err = e]

\* The error a listener body raises: it reaches the caller as it is.
ListenerError(c, l) == Err("ListenerError", c.ev, l)

----------------------------------------------------------------------------
\* emit_async(event, *args, **kwargs)

emit_async_call(t, event) ==
    /\ task[t].pc \in {"idle", "done"}
    /\ task' = [task EXCEPT ![t] = Coroutine("emit_async", event)]
    /\ UNCHANGED <<passed, strict, listeners, registered, registrar>>

\* The list object the for loop iterates: the registry's list of the event
\* (shared with listen, which appends to it), or the default [].
iterated(c) == IF c.src = "registry" THEN get(listeners, c.ev) ELSE <<>>

\* The for loop from position i up to its next suspension: a synchronous
\* listener is called in place, an asynchronous one is awaited.
RECURSIVE emit_async_loop(_, _)
emit_async_loop(c, i) ==
    IF i > Len(iterated(c)) THEN Returned(c)
    ELSE LET listener == iterated(c)[i]
             called == [c EXCEPT !.idx = i, !.log = Append(@, listener)]
         IN  IF iscoroutinefunction(listener)
             THEN [called EXCEPT !.pc = "suspended"]
             ELSE IF listener \in Raising
                  THEN Raised(called, ListenerError(c, listener))
                  ELSE emit_async_loop(called, i + 1)

\* One run of the coroutine by the event loop: from its creation, or from the
\* await of an asynchronous listener that has finished, up to the next
\* suspension or to its end.
emit_async_run(c) ==
    IF c.pc = "created"
    THEN IF "_listeners" \notin attributes
         THEN Raised(c, Err("AttributeError", "none", "none"))
         ELSE emit_async_loop(
                  [c EXCEPT !.src = IF c.ev \in DOMAIN listeners
                                    THEN "registry" ELSE "default"], 1)
    ELSE IF iterated(c)[c.idx] \in Raising
         THEN Raised(c, ListenerError(c, iterated(c)[c.idx]))
         ELSE emit_async_loop(c, c.idx + 1)

\* Mutant of emit_async: the event's list is fetched with setdefault, which
\* enters an empty list for an unknown event.
emit_async_setdefault(t) ==
    /\ task[t].op = "emit_async"
    /\ task[t].pc \in {"created", "suspended"}
    /\ task' = [task EXCEPT ![t] =
           emit_async_run(IF task[t].pc = "created"
                          THEN [task[t] EXCEPT !.n0 = Len(registered[task[t].ev])]
                          ELSE task[t])]
    /\ listeners' = IF task[t].ev \in DOMAIN listeners
                    THEN listeners ELSE setitem(listeners, task[t].ev, <<>>)
    /\ UNCHANGED <<passed, strict, registered, registrar>>

emit_async(t) ==
    /\ task[t].op = "emit_async"
    /\ task[t].pc \in {"created", "suspended"}
    /\ task' = [task EXCEPT ![t] =
           emit_async_run(IF task[t].pc = "created"
                          THEN [task[t] EXCEPT !.n0 = Len(registered[task[t].ev])]
                          ELSE task[t])]
    /\ UNCHANGED <<passed, strict, listeners, registered, registrar>>

----------------------------------------------------------------------------
\* emit_sync(event, *args, **kwargs)

emit_sync_call(t, event) ==
    /\ task[t].pc \in {"idle", "done"}
    /\ task' = [task EXCEPT ![t] = Coroutine("emit_sync", event)]
    /\ UNCHANGED <<passed, strict, listeners, registered, registrar>>

\* Mutants of emit_sync_listener: one that invokes asynchronous listeners as
\* well, one that tests the capability the wrong way round.
emit_sync_listener_invokes_all(l, st) == "INVOKE"

emit_sync_listener_inverted(l, st) ==
    IF ~iscoroutinefunction(l)
    THEN IF st THEN "FAIL" ELSE "SKIP"
    ELSE "INVOKE"

\* What emit_sync does with one listener.
emit_sync_listener(l, st) ==
    IF iscoroutinefunction(l)
    THEN IF st THEN "FAIL" ELSE "SKIP"
    ELSE "INVOKE"

\* Mutant of emit_sync_fail: the listeners invoked so far are rolled back.
emit_sync_fail_rolls_back(c, l) ==
    Raised([c EXCEPT !.log = <<>>], Err("StrictModeViolation", c.ev, l))

\* Strict mode meets an asynchronous listener: the emission fails, naming the
\* event and the listener; what was invoked before stays invoked.
emit_sync_fail(c, l) == Raised(c, Err("StrictModeViolation", c.ev, l))

\* Mutant of emit_sync_invoke: a failure of the listener is swallowed.
emit_sync_invoke_swallows(c, l) == [c EXCEPT !.log = Append(@, l)]

\* A synchronous listener is invoked: its failure ends the emission.
emit_sync_invoke(c, l) ==
    IF l \in Raising
    THEN Raised([c EXCEPT !.log = Append(@, l)], ListenerError(c, l))
    ELSE [c EXCEPT !.log = Append(@, l)]

\* The listeners of the event from position i on, one after the other.
RECURSIVE emit_sync_body(_, _, _, _)
emit_sync_body(c, lst, i, st) ==
    IF i > Len(lst) THEN Returned(c)
    ELSE LET l == lst[i]
             how == emit_sync_listener(l, st)
         IN  CASE how = "FAIL" ->
                    emit_sync_fail(c, l)
               [] how = "SKIP" ->
                    emit_sync_body([c EXCEPT !.warns = Append(@, l)], lst, i + 1, st)
               [] OTHER ->
                    IF emit_sync_invoke(c, l).pc = "done"
                    THEN emit_sync_invoke(c, l)
                    ELSE emit_sync_body(emit_sync_invoke(c, l), lst, i + 1, st)

\* The coroutine of emit_sync is driven: its body has no await, it runs to its end.
emit_sync(t) ==
    /\ task[t].op = "emit_sync"
    /\ task[t].pc = "created"
    /\ task' = [task EXCEPT ![t] =
           emit_sync_body([task[t] EXCEPT !.src = "registry",
                                          !.n0 = Len(registered[task[t].ev])],
                          get(listeners, task[t].ev), 1, strict)]
    /\ UNCHANGED <<passed, strict, listeners, registered, registrar>>

----------------------------------------------------------------------------
Next ==
    \/ \E e \in Events, f \in Listeners : listen(e, f)
    \/ \E t \in Tasks, e \in Events : emit_async_call(t, e)
    \/ \E t \in Tasks : emit_async(t)
    \/ \E t \in Tasks, e \in Events : emit_sync_call(t, e)
    \/ \E t \in Tasks : emit_sync(t)

Spec == Init /\ [][Next]_vars

----------------------------------------------------------------------------
\* The listeners registered under the event of task t's emission when its body started.
Snap(t) == SubSeq(registered[task[t].ev], 1, task[t].n0)

Done(t, o) == task[t].op = o /\ task[t].pc = "done"

NoneRaises(s) == Range(s) \cap Raising = {}
HasAsync(s) == \E i \in 1..Len(s) : iscoroutinefunction(s[i])
FirstAsyncPos(s) ==
    CHOOSE i \in 1..Len(s) :
        iscoroutinefunction(s[i]) /\ \A j \in 1..(i - 1) : ~iscoroutinefunction(s[j])
IsSync(l) == ~iscoroutinefunction(l)

----------------------------------------------------------------------------
\* C1: an emit_async of E whose listeners all return, once it has ended, has
\* invoked the listeners registered under E exactly once each, in registration
\* order; while it waits for an asynchronous listener, that listener is the
\* last one it has started.
C1_EmitAsyncInRegistrationOrder ==
    \A t \in Tasks :
        /\ (Done(t, "emit_async") /\ NoneRaises(Snap(t))) => task[t].log = Snap(t)
        /\ (task[t].op = "emit_async" /\ task[t].pc = "suspended")
               => task[t].log = SubSeq(iterated(task[t]), 1, task[t].idx)

\* C2 as stated: with strict true, an emit_sync of E whose listeners include an
\* asynchronous one ends in StrictModeViolation naming E and the first
\* asynchronous listener, which is not invoked.
C2_StrictEmitSyncFails ==
    \A t \in Tasks :
        (Done(t, "emit_sync") /\ strict /\ HasAsync(Snap(t)))
            => /\ task[t].err = Err("StrictModeViolation", task[t].ev,
                                    Snap(t)[FirstAsyncPos(Snap(t))])
               /\ Snap(t)[FirstAsyncPos(Snap(t))] \notin Range(task[t].log)

\* C2 amended: the same, provided no synchronous listener registered before
\* the first asynchronous one raises.
C2_StrictEmitSyncFailsUnlessRaisedBefore ==
    \A t \in Tasks :
        (/\ Done(t, "emit_sync") /\ strict /\ HasAsync(Snap(t))
         /\ NoneRaises(SubSeq(Snap(t), 1, FirstAsyncPos(Snap(t)) - 1)))
            => /\ task[t].err = Err("StrictModeViolation", task[t].ev,
                                    Snap(t)[FirstAsyncPos(Snap(t))])
               /\ Snap(t)[FirstAsyncPos(Snap(t))] \notin Range(task[t].log)

C2_Witness ==
    \E t \in Tasks :
        /\ Done(t, "emit_sync") /\ strict
        /\ Snap(t) = <<"f", "g", "f">>
        /\ task[t].err = Err("StrictModeViolation", task[t].ev, "g")
        /\ task[t].log = <<"f">>

\* C3: on an emitter constructed with strict = False, an emit_sync of E whose
\* listeners all return ends normally, has invoked exactly the synchronous
\* listeners of E in registration order, and has warned once for each
\* asynchronous listener of E.
C3_NonStrictEmitSyncSkips ==
    \A t \in Tasks :
        (passed = "False" /\ Done(t, "emit_sync") /\ NoneRaises(Snap(t)))
            => /\ task[t].result = "ok"
               /\ task[t].log = SelectSeq(Snap(t), IsSync)
               /\ task[t].warns = SelectSeq(Snap(t), iscoroutinefunction)

\* C4: right after construction, strict is the boolean the constructor was
\* given (True when omitted).
C4_StrictIsConstructorArgument ==
    (listeners = init_listeners /\ \A t \in Tasks : task[t] = Idle)
        => strict = strict_param(passed)

\* C5 as stated: an emit_sync of E whose listeners are all synchronous invokes
\* each of them once, in registration order, and ends without error or warning.
C5_EmitSyncAllSync ==
    \A t \in Tasks :
        (Done(t, "emit_sync") /\ Range(Snap(t)) \subseteq SyncListeners)
            => /\ task[t].log = Snap(t)
               /\ task[t].result = "ok"
               /\ task[t].warns = <<>>

\* C5 amended: the same, provided none of the listeners raises.
C5_EmitSyncAllSyncReturning ==
    \A t \in Tasks :
        (/\ Done(t, "emit_sync") /\ Range(Snap(t)) \subseteq SyncListeners
         /\ NoneRaises(Snap(t)))
            => /\ task[t].log = Snap(t)
               /\ task[t].result = "ok"
               /\ task[t].warns = <<>>

C5_Witness ==
    \E t \in Tasks :
        /\ Done(t, "emit_sync") /\ passed = "False"
        /\ Snap(t) = <<"f", "f">>
        /\ task[t].log = <<"f", "f">>
        /\ task[t].result = "ok"

C7_UnknownEventIsNoOp ==
    \A t \in Tasks :
        (task[t].pc = "done" /\ registered[task[t].ev] = <<>>)
            => /\ task[t].result = "ok"
               /\ task[t].log = <<>>
               /\ task[t].warns = <<>>

\* C8: the registry holds, under each event, exactly the listeners that were
\* registered under it, in registration order, duplicates included; an event
\* nothing was registered under is absent.
C8_RegistryIsRegistrationHistory ==
    \A e \in Events :
        IF registered[e] = <<>>
        THEN e \notin DOMAIN listeners
        ELSE e \in DOMAIN listeners /\ listeners[e] = registered[e]

C8_Witness ==
    /\ "x" \in DOMAIN listeners /\ listeners["x"] = <<"f", "g", "f">>
    /\ "y" \notin DOMAIN listeners

\* C9: a registration under one event leaves the list of every other event as
\* it was, and an emission of an event invokes only listeners registered
\* under that event.
C9_RegistrationFrame ==
    \A e1 \in Events :
        registered'[e1] # registered[e1]
            => \A e2 \in Events \ {e1} :
                   /\ (e2 \in DOMAIN listeners') = (e2 \in DOMAIN listeners)
                   /\ e2 \in DOMAIN listeners => listeners'[e2] = listeners[e2]

C9_EmissionFrame ==
    \A t \in Tasks :
        task[t].op # "none" => Range(task[t].log) \subseteq Range(registered[task[t].ev])

C9_EventsIndependent == [][C9_RegistrationFrame]_vars /\ []C9_EmissionFrame

C9_Witness ==
    \E t \in Tasks :
        /\ Done(t, "emit_sync") /\ task[t].ev = "x"
        /\ registered["x"] = <<"f">> /\ registered["y"] = <<"h", "g">>
        /\ listeners["y"] = <<"h", "g">>
        /\ task[t].log = <<"f">>

\* C10: once a call of emit_sync on an event that has listeners has returned,
\* the emission has been performed: its listeners have been invoked or it has
\* failed, with nothing left for the caller to drive.
C10_EmitSyncCallPerformsEmission ==
    \A t \in Tasks :
        (task[t].op = "emit_sync" /\ get(listeners, task[t].ev) # <<>>)
            => task[t].pc = "done"

\* C11: when a strict emit_sync of E has failed on an asynchronous listener,
\* the listeners it has invoked are exactly the listeners registered before
\* that one, in registration order, none of them undone, and no listener
\* registered after it has been invoked.
C11_StrictFailureKeepsPrefix ==
    \A t \in Tasks :
        (Done(t, "emit_sync") /\ task[t].err.type = "StrictModeViolation")
            => /\ Len(task[t].log) < Len(Snap(t))
               /\ task[t].log = SubSeq(Snap(t), 1, Len(task[t].log))
               /\ Range(task[t].log) \subseteq SyncListeners
               /\ iscoroutinefunction(Snap(t)[Len(task[t].log) + 1])
               /\ task[t].err.listener = Snap(t)[Len(task[t].log) + 1]

C11_Witness ==
    \E t \in Tasks :
        /\ Done(t, "emit_sync") /\ strict
        /\ Snap(t) = <<"f", "f", "g">>
        /\ task[t].err.type = "StrictModeViolation"
        /\ task[t].log = <<"f", "f">>

\* C12: the registrar returns the very listener it was given, and the
\* listener is then the last of its event's list; the first registration
\* under an event makes a one-element list holding that listener.
C12_RegistrarReturnsListener ==
    /\ registrar.returned = registrar.given
    /\ registrar.given # "none"
           => \E e \in DOMAIN listeners :
                  listeners[e] # <<>> /\ listeners[e][Len(listeners[e])] = registrar.given
    /\ \A e \in Events :
           Len(registered[e]) = 1
               => e \in DOMAIN listeners /\ listeners[e] = <<registered[e][1]>>

C12_Witness ==
    /\ registrar = [given |-> "g", returned |-> "g"]
    /\ registered = [x |-> <<"f">>, y |-> <<"g">>]
    /\ listeners = [x |-> <<"f">>, y |-> <<"g">>]

\* C13: strict has, in every reachable state, the value construction gave it.
C13_StrictNeverChanges == strict = init_strict(passed)

C13_Witness ==
    \E t1, t2 \in Tasks :
        /\ Done(t1, "emit_async") /\ task[t1].result = "error"
        /\ Done(t2, "emit_sync") /\ task[t2].err.type = "StrictModeViolation"
        /\ SumLen(registered, Events) = 2
        /\ strict = init_strict(passed)

\* C14: a step of an emission (a call of emit_async or emit_sync, or a run of
\* its coroutine) leaves the mapping from event names to listener lists as
\* it was, whether the emission completes or fails.
C14_EmissionStep == task' # task => listeners' = listeners

C14_EmissionReadsOnly == [][C14_EmissionStep]_vars

C14_Witness ==
    \E t1, t2 \in Tasks :
        /\ Done(t1, "emit_async") /\ task[t1].ev = "y"
        /\ Done(t2, "emit_sync") /\ task[t2].result = "ok" /\ task[t2].log = <<"f">>
        /\ listeners = [x |-> <<"f">>]

\* C15: an emit_async is suspended only at an asynchronous listener, and an
\* emit_async of E over synchronous, returning listeners only, once its
\* coroutine has been started, has invoked all of them in that one run.
C15_SuspendsOnlyAtAsyncListener ==
    \A t \in Tasks :
        task[t].op = "emit_async"
            => /\ task[t].pc = "suspended"
                      => iscoroutinefunction(task[t].log[Len(task[t].log)])
               /\ (/\ task[t].pc \notin {"idle", "created"}
                   /\ Range(Snap(t)) \subseteq SyncListeners
                   /\ NoneRaises(Snap(t)))
                      => task[t].pc = "done" /\ task[t].log = Snap(t)

\* C16: of two emit_async emissions run by two tasks, each one on its own has
\* invoked its listeners in registration order, with at most one of them
\* started and not finished, whatever the other one does.
C16_ConcurrentEmissionsKeepOrder ==
    \A t1, t2 \in Tasks :
        (/\ t1 # t2
         /\ task[t1].op = "emit_async" /\ task[t1].pc \in {"suspended", "done"}
         /\ task[t2].op = "emit_async" /\ task[t2].pc \in {"suspended", "done"}
         /\ NoneRaises(Snap(t1)) /\ NoneRaises(Snap(t2)))
            => \A t \in {t1, t2} :
                   IF task[t].pc = "done"
                   THEN task[t].log = Snap(t)
                   ELSE task[t].log = SubSeq(iterated(task[t]), 1, task[t].idx)

\* C17: an emit_async of E, E having listeners that all return, that has
\* ended has ended with no value; while an asynchronous listener has not
\* finished, no listener after it has been invoked.
C17_EmitAsyncCompletesWithNoValue ==
    \A t \in Tasks :
        /\ (Done(t, "emit_async") /\ Snap(t) # <<>> /\ NoneRaises(Snap(t)))
               => task[t].result = "ok" /\ task[t].err = NoErr
        /\ (task[t].op = "emit_async" /\ task[t].pc = "suspended")
               => Len(task[t].log) = task[t].idx

\* C18: no event name of the registry maps to an empty list, and no step
\* removes a name or shortens its list.
C18_NoEmptyList == \A e \in DOMAIN listeners : Len(listeners[e]) >= 1

C18_NoShrinkStep ==
    \A e \in DOMAIN listeners :
        e \in DOMAIN listeners' /\ Len(listeners'[e]) >= Len(listeners[e])

C19_LiveIterationStep ==
    \A t \in Tasks :
        (/\ task[t].op = "emit_async"
         /\ task[t].pc \in {"created", "suspended"}
         /\ task'[t].pc = "done"
         /\ registered[task[t].ev] # <<>>
         /\ NoneRaises(registered[task[t].ev]))
            => task'[t].log = registered[task[t].ev]

C19_EmitAsyncIteratesLiveList == [][C19_LiveIterationStep]_vars

====
